---- MODULE Spec2Model ----
(***************************************************************************)
(* BitSetCollection (src/src/lib.rs): a wrapper that pairs a hibitset      *)
(* BitSet with a backing Collection.  The adapter is modelled from the     *)
(* source.  The backing containers implement the Collection trait of the   *)
(* collection_trait crate, whose code is not part of src/; they are        *)
(* modelled from section 4.1 of the specification (the Collection*         *)
(* operators below).                                                       *)
(*                                                                         *)
(* Keys are usize values.  The u32 range of the presence index is scaled   *)
(* down: the keys 0..MaxKey convert to u32, every larger key fails the     *)
(* conversion (try_into() returns Err and unwrap() panics).                *)
(***************************************************************************)
EXTENDS Integers, Sequences, FiniteSets

VARIABLES kind, bitset, collection, pc, op, ret, prevBitset, prevCollection,
          iterOpen, iterAt, yielded

iterVars == <<iterOpen, iterAt, yielded>>
vars == <<kind, bitset, collection, pc, op, ret, prevBitset, prevCollection,
          iterVars>>

\* Largest key that converts to u32 (u32::MAX, scaled down).
MaxKey == 2
\* Stored values are 1..MaxVal.
MaxVal == 2
\* Longest (key, value) sequence handed to from_iter.
MaxPairs == 2

InRangeKeys == 0..MaxKey
OutOfRangeKey == MaxKey + 1
KeyDomain == 0..OutOfRangeKey
Values == 1..MaxVal

\* Option<T>: None is the empty tuple, Some(v) the one-element tuple.
None == <<>>
Some(v) == <<v>>
IsSome(o) == o # None

Range(s) == {s[i] : i \in 1..Len(s)}

RECURSIVE Perms(_)
Perms(S) ==
    IF S = {} THEN {<<>>}
    ELSE UNION {{<<x>> \o p : p \in Perms(S \ {x})} : x \in S}

(***************************************************************************)
(* Backing containers (the Collection trait's implementations).            *)
(* "map": a key-value map (BTreeMap, HashMap), a function from every key   *)
(* to its Option.  "seq": an index-addressed sequence (Vec, VecDeque), the *)
(* key of an element is its index.                                         *)
(***************************************************************************)
Kinds == {"map", "seq"}

CollectionDefault(kd) ==
    IF kd = "map" THEN [k \in KeyDomain |-> None] ELSE <<>>

CollectionContainsKey(kd, c, k) ==
    IF kd = "map" THEN c[k] # None ELSE k < Len(c)

CollectionGet(kd, c, k) ==
    IF kd = "map" THEN c[k]
    ELSE IF k < Len(c) THEN Some(c[k + 1]) ELSE None

\* get_unchecked: the possible outcomes.  On a present key, the stored
\* value.  On an absent key the behaviour is undefined: the call does not
\* return (None here: a panic or a fault) or yields some value.
CollectionGetUnchecked(kd, c, k) ==
    IF CollectionContainsKey(kd, c, k)
    THEN {CollectionGet(kd, c, k)}
    ELSE {None} \cup {Some(v) : v \in Values}

\* keys(): the possible key sequences.  A sequence yields its indices in
\* order; a map's order is backend-defined (any order).
CollectionKeys(kd, c) ==
    IF kd = "map" THEN Perms({k \in KeyDomain : c[k] # None})
    ELSE {[i \in 1..Len(c) |-> i - 1]}

\* insert: stores the value and returns the previous one.  A sequence
\* replaces an element in bounds, grows by one at its length, and silently
\* declines an index beyond its length.
CollectionInsert(kd, c, k, v) ==
    IF kd = "map"
    THEN [collection |-> [c EXCEPT ![k] = Some(v)], ret |-> c[k]]
    ELSE IF k < Len(c)
         THEN [collection |-> [c EXCEPT ![k + 1] = v], ret |-> Some(c[k + 1])]
         ELSE IF k = Len(c)
              THEN [collection |-> Append(c, v), ret |-> None]
              ELSE [collection |-> c, ret |-> None]

\* remove: deletes the entry and returns it.  A sequence closes the gap:
\* the elements after the removed index move down by one.
CollectionRemove(kd, c, k) ==
    IF kd = "map"
    THEN [collection |-> [c EXCEPT ![k] = None], ret |-> c[k]]
    ELSE IF k < Len(c)
         THEN [collection |-> SubSeq(c, 1, k) \o SubSeq(c, k + 2, Len(c)),
               ret |-> Some(c[k + 1])]
         ELSE [collection |-> c, ret |-> None]

\* The set of keys the container holds a value for.
CollectionKeySet(kd, c) == {k \in KeyDomain : CollectionContainsKey(kd, c, k)}

(***************************************************************************)
(* Key conversion and the BitSet.                                          *)
(***************************************************************************)
\* K::try_into() -> Result<u32, _>: Some(u) on success, None on Err.
TryIntoU32(k) == IF k <= MaxKey THEN Some(k) ELSE None

\* u32 -> K (usize): every u32 converts.
TryFromU32(u) == Some(u)

\* BitIter: the set bits in ascending order.
RECURSIVE BitIter(_)
BitIter(b) ==
    IF b = {} THEN <<>>
    ELSE LET m == CHOOSE x \in b : \A y \in b : x <= y
         IN  <<m>> \o BitIter(b \ {m})

(***************************************************************************)
(* The adapter's operations as functions of its fields.  A result record   *)
(* has panicked = TRUE when an unwrap() failed; the fields are then the    *)
(* ones at the point of the panic.                                         *)
(***************************************************************************)
\* new() without the scan of the container's keys.
new_unscanned(kd, c, ks) ==
    [panicked |-> FALSE, bitset |-> {}, collection |-> c]

\* BitSetCollection::new: the bitset collected from the container's keys.
new(kd, c, ks) ==
    IF \E i \in 1..Len(ks) : TryIntoU32(ks[i]) = None
    THEN [panicked |-> TRUE, bitset |-> {}, collection |-> c]
    ELSE [panicked |-> FALSE,
          bitset |-> {TryIntoU32(ks[i])[1] : i \in 1..Len(ks)},
          collection |-> c]

\* The loop of from_iter: collection.insert for each pair, in order.
RECURSIVE from_iter_collection(_, _, _)
from_iter_collection(kd, c, pairs) ==
    IF pairs = <<>> THEN c
    ELSE from_iter_collection(
             kd, CollectionInsert(kd, c, pairs[1][1], pairs[1][2]).collection,
             Tail(pairs))

\* insert() that marks the key present only when the container stored it.
insert_if_stored(kd, b, c, k, v) ==
    IF TryIntoU32(k) = None
    THEN [panicked |-> TRUE, bitset |-> b, collection |-> c, ret |-> None]
    ELSE LET r == CollectionInsert(kd, c, k, v)
         IN  [panicked |-> FALSE,
              bitset |-> IF CollectionContainsKey(kd, r.collection, k)
                         THEN b \cup {TryIntoU32(k)[1]} ELSE b,
              collection |-> r.collection, ret |-> r.ret]

\* insert() that delegates to the container before it converts the key.
insert_container_first(kd, b, c, k, v) ==
    LET r == CollectionInsert(kd, c, k, v)
    IN  IF TryIntoU32(k) = None
        THEN [panicked |-> TRUE, bitset |-> b, collection |-> r.collection,
              ret |-> None]
        ELSE [panicked |-> FALSE, bitset |-> b \cup {TryIntoU32(k)[1]},
              collection |-> r.collection, ret |-> r.ret]

insert(kd, b, c, k, v) ==
    IF TryIntoU32(k) = None
    THEN [panicked |-> TRUE, bitset |-> b, collection |-> c, ret |-> None]
    ELSE LET r == CollectionInsert(kd, c, k, v)
         IN  [panicked |-> FALSE, bitset |-> b \cup {TryIntoU32(k)[1]},
              collection |-> r.collection, ret |-> r.ret]

\* remove() that clears the key only when the container returned a value.
remove_if_removed(kd, b, c, k) ==
    IF TryIntoU32(k) = None
    THEN [panicked |-> TRUE, bitset |-> b, collection |-> c, ret |-> None]
    ELSE LET r == CollectionRemove(kd, c, k)
         IN  [panicked |-> FALSE,
              bitset |-> IF r.ret = None THEN b ELSE b \ {TryIntoU32(k)[1]},
              collection |-> r.collection, ret |-> r.ret]

remove(kd, b, c, k) ==
    IF TryIntoU32(k) = None
    THEN [panicked |-> TRUE, bitset |-> b, collection |-> c, ret |-> None]
    ELSE LET r == CollectionRemove(kd, c, k)
         IN  [panicked |-> FALSE, bitset |-> b \ {TryIntoU32(k)[1]},
              collection |-> r.collection, ret |-> r.ret]

contains_key(b, k) ==
    IF TryIntoU32(k) = None
    THEN [panicked |-> TRUE, flag |-> FALSE]
    ELSE [panicked |-> FALSE, flag |-> TryIntoU32(k)[1] \in b]

\* keys() that yields the bits from the highest down.
keys_descending(b) ==
    LET it == BitIter(b)
    IN  [i \in 1..Len(it) |-> TryFromU32(it[Len(it) + 1 - i])[1]]

keys(b) ==
    LET it == BitIter(b)
    IN  [i \in 1..Len(it) |-> TryFromU32(it[i])[1]]

\* The BitSet a key iterator made at snapshot reads while the adapter's is
\* live, were it to borrow the adapter's bitset.
iter_source_live(snapshot, live) == live

\* The BitSet a key iterator reads: keys() iterates self.bitset.clone(), a
\* copy made when keys() is called and owned by the iterator.
iter_source(snapshot, live) == snapshot

\* Iterator::next on the key iterator: the lowest bit of its BitSet above
\* the last one yielded, converted to K; None when there is none.
iter_next(src, done) ==
    LET rest == IF done = <<>> THEN src
                ELSE {u \in src : u > done[Len(done)]}
    IN  IF rest = {} THEN None
        ELSE Some(TryFromU32(CHOOSE x \in rest : \A y \in rest : x <= y)[1])

\* get: the set of possible outcomes; the unchecked path is taken when the
\* bitset holds the key.
get(kd, b, c, k) ==
    IF TryIntoU32(k) = None
    THEN {[panicked |-> TRUE, ret |-> None]}
    ELSE IF TryIntoU32(k)[1] \in b
         THEN {[panicked |-> o = None, ret |-> o] :
                   o \in CollectionGetUnchecked(kd, c, k)}
         ELSE {[panicked |-> FALSE, ret |-> None]}

(***************************************************************************)
(* State machine.  pc: "start" before construction, "ready" between        *)
(* public operations, "panicked" after a failed unwrap().  op records the  *)
(* last operation and its arguments, ret its result, prevBitset and        *)
(* prevCollection the fields before it.  iterOpen: a key iterator returned  *)
(* by keys() is held by the caller; iterAt: the bitset when keys() was     *)
(* called; yielded: the keys the iterator has yielded so far.              *)
(***************************************************************************)
NoRet == [opt |-> None, keys |-> <<>>, flag |-> FALSE]
Call(n, k, v, in) == [name |-> n, key |-> k, value |-> v, input |-> in]

Pairs == KeyDomain \X Values
PairSeqs == UNION {[1..n -> Pairs] : n \in 0..MaxPairs}

\* The containers new() may be handed.
InputCollections(kd) ==
    IF kd = "map" THEN [KeyDomain -> {None} \cup {Some(v) : v \in Values}]
    ELSE UNION {[1..n -> Values] : n \in 0..(MaxKey + 2)}

Init ==
    /\ kind \in Kinds
    /\ bitset = {}
    /\ collection = CollectionDefault(kind)
    /\ pc = "start"
    /\ op = Call("none", 0, 0, <<>>)
    /\ ret = NoRet
    /\ prevBitset = {}
    /\ prevCollection = CollectionDefault(kind)
    /\ iterOpen = FALSE
    /\ iterAt = {}
    /\ yielded = <<>>

Return(r, o) ==
    /\ pc' = IF r.panicked THEN "panicked" ELSE "ready"
    /\ bitset' = r.bitset
    /\ collection' = r.collection
    /\ ret' = o
    /\ prevBitset' = bitset
    /\ prevCollection' = collection
    /\ UNCHANGED kind

Finish(r, o) == Return(r, o) /\ UNCHANGED iterVars

\* #[derive(Default)]: an empty bitset and the container's default.
Default ==
    /\ pc = "start"
    /\ op' = Call("default", 0, 0, <<>>)
    /\ Finish([panicked |-> FALSE, bitset |-> {},
               collection |-> CollectionDefault(kind)], NoRet)

New ==
    /\ pc = "start"
    /\ \E c \in InputCollections(kind) :
         \E ks \in CollectionKeys(kind, c) :
            /\ op' = Call("new", 0, 0, c)
            /\ Finish(new(kind, c, ks), NoRet)

FromIter ==
    /\ pc = "start"
    /\ \E pairs \in PairSeqs :
         LET c == from_iter_collection(kind, CollectionDefault(kind), pairs)
         IN  \E ks \in CollectionKeys(kind, c) :
                /\ op' = Call("from_iter", 0, 0, pairs)
                /\ Finish(new(kind, c, ks), NoRet)

InsertOf(vals) ==
    /\ pc = "ready"
    /\ \E k \in KeyDomain, v \in vals :
         LET r == insert(kind, bitset, collection, k, v)
         IN  /\ op' = Call("insert", k, v, <<>>)
             /\ Finish(r, [NoRet EXCEPT !.opt = r.ret])

Insert == InsertOf(Values)

Remove ==
    /\ pc = "ready"
    /\ \E k \in KeyDomain :
         LET r == remove(kind, bitset, collection, k)
         IN  /\ op' = Call("remove", k, 0, <<>>)
             /\ Finish(r, [NoRet EXCEPT !.opt = r.ret])

Get ==
    /\ pc = "ready"
    /\ \E k \in KeyDomain :
         \E r \in get(kind, bitset, collection, k) :
            /\ op' = Call("get", k, 0, <<>>)
            /\ Finish([panicked |-> r.panicked, bitset |-> bitset,
                       collection |-> collection],
                      [NoRet EXCEPT !.opt = r.ret])

ContainsKey ==
    /\ pc = "ready"
    /\ \E k \in KeyDomain :
         LET r == contains_key(bitset, k)
         IN  /\ op' = Call("contains_key", k, 0, <<>>)
             /\ Finish([panicked |-> r.panicked, bitset |-> bitset,
                        collection |-> collection],
                       [NoRet EXCEPT !.flag = r.flag])

Keys ==
    /\ pc = "ready"
    /\ op' = Call("keys", 0, 0, <<>>)
    /\ Finish([panicked |-> FALSE, bitset |-> bitset,
               collection |-> collection],
              [NoRet EXCEPT !.keys = keys(bitset)])

\* keys() whose iterator the caller keeps and consumes step by step.
KeysIter ==
    /\ pc = "ready"
    /\ op' = Call("keys_iter", 0, 0, <<>>)
    /\ iterOpen' = TRUE
    /\ iterAt' = bitset
    /\ yielded' = <<>>
    /\ Return([panicked |-> FALSE, bitset |-> bitset,
               collection |-> collection], NoRet)

\* One next() on the iterator the caller holds.
IterNext ==
    /\ pc = "ready"
    /\ iterOpen
    /\ LET n == iter_next(iter_source(iterAt, bitset), yielded)
       IN  /\ op' = Call("next", 0, 0, <<>>)
           /\ yielded' = IF n = None THEN yielded ELSE Append(yielded, n[1])
           /\ UNCHANGED <<iterOpen, iterAt>>
           /\ Return([panicked |-> FALSE, bitset |-> bitset,
                      collection |-> collection],
                     [NoRet EXCEPT !.opt = n])

Next ==
    \/ Default
    \/ New
    \/ FromIter
    \/ Insert
    \/ Remove
    \/ Get
    \/ ContainsKey
    \/ Keys

Spec == Init /\ [][Next]_vars

\* insert() of one fixed value: the bitset, which is all a key iterator
\* reads, does not depend on the values stored.
InsertKey == InsertOf({MaxVal})

\* The adapter with a key iterator consumed lazily: a default adapter, the
\* two mutating operations, keys() and next() on the iterator it returned.
NextIter ==
    \/ Default
    \/ InsertKey
    \/ Remove
    \/ KeysIter
    \/ IterNext

SpecIter == Init /\ [][NextIter]_vars

(***************************************************************************)
(* Properties.                                                             *)
(***************************************************************************)
Ready == pc = "ready"
Did(n) == pc = "ready" /\ op.name = n

\* get(k) returns Some: every possible outcome of the call does.
ReturnsSome(outs) == \A r \in outs : ~r.panicked /\ IsSome(r.ret)

StrictlyAscending(s) == \A i, j \in 1..Len(s) : i < j => s[i] < s[j]

\* C1: between public operations the presence index holds exactly the keys
\* the backing container holds a value for, for the map and the sequence
\* backends.
C1_IndexMirrorsContainer ==
    Ready => bitset = CollectionKeySet(kind, collection)

\* C2: between operations, for every key k: contains_key(k) iff get(k)
\* returns Some iff k is in the output of keys().
C2_PresenceConsistency ==
    Ready =>
        \A k \in InRangeKeys :
            /\ contains_key(bitset, k).flag
                   <=> ReturnsSome(get(kind, bitset, collection, k))
            /\ contains_key(bitset, k).flag <=> k \in Range(keys(bitset))

\* C3: whenever get(k) takes the unchecked path (the presence index holds
\* k), the backing container holds a value for k.
C3_UncheckedPathSafe ==
    (pc \in {"ready", "panicked"} /\ op.name = "get"
         /\ TryIntoU32(op.key) # None /\ TryIntoU32(op.key)[1] \in prevBitset)
        => CollectionContainsKey(kind, prevCollection, op.key)

\* The adapter's insert applied to each pair in order.
RECURSIVE insert_all(_, _, _, _)
insert_all(kd, b, c, pairs) ==
    IF pairs = <<>> THEN [panicked |-> FALSE, bitset |-> b, collection |-> c]
    ELSE LET r == insert(kd, b, c, pairs[1][1], pairs[1][2])
         IN  IF r.panicked
             THEN [panicked |-> TRUE, bitset |-> r.bitset,
                   collection |-> r.collection]
             ELSE insert_all(kd, r.bitset, r.collection, Tail(pairs))

LastValue(pairs, k) ==
    LET i == CHOOSE i \in 1..Len(pairs) :
                 /\ pairs[i][1] = k
                 /\ \A j \in (i + 1)..Len(pairs) : pairs[j][1] # k
    IN  pairs[i][2]

\* C4: from_iter(pairs) yields the presence index and the container that
\* default() followed by the adapter's insert of each pair yields; its keys
\* are the distinct keys of the input, each mapped to its last value.
C4_FromIterIsInsertAll ==
    op.name = "from_iter" =>
        LET a == insert_all(kind, {}, CollectionDefault(kind), op.input)
        IN  /\ (pc = "panicked") = a.panicked
            /\ Ready =>
                  /\ bitset = a.bitset
                  /\ collection = a.collection
                  /\ Range(keys(bitset)) = {op.input[i][1] : i \in 1..Len(op.input)}
                  /\ \A k \in Range(keys(bitset)) :
                        get(kind, bitset, collection, k)
                            = {[panicked |-> FALSE,
                                ret |-> Some(LastValue(op.input, k))]}

\* C5: after insert(k, v), get(k) returns Some(v); an insert(k, v2) directly
\* after an insert(k, v1) returns Some(v1), and v1 is then retrievable only
\* under keys that held it before.
C5_InsertOverwrite ==
    [][(pc' = "ready" /\ op'.name = "insert") =>
         /\ get(kind', bitset', collection', op'.key)
                = {[panicked |-> FALSE, ret |-> Some(op'.value)]}
         /\ (Did("insert") /\ op.key = op'.key /\ op.value # op'.value) =>
               /\ ret'.opt = Some(op.value)
               /\ \A k \in InRangeKeys :
                     Some(op.value) \in
                         {r.ret : r \in get(kind', bitset', collection', k)}
                       => Some(op.value) \in
                         {r.ret : r \in get(kind, bitset, collection, k)}
      ]_vars

\* C6: remove(k) of a key the adapter does not contain returns None and
\* changes neither the presence index nor the backing container.
C6_RemoveAbsentIsNoOp ==
    (Did("remove") /\ ~contains_key(prevBitset, op.key).flag) =>
        /\ ret.opt = None
        /\ bitset = prevBitset
        /\ collection = prevCollection

\* C7: in every reachable state keys() is in strictly ascending key order
\* (hence without duplicates), whatever the insertion order and whatever
\* the container's native key order.
C7_KeysAscending ==
    /\ Ready => StrictlyAscending(keys(bitset))
    /\ Did("keys") => /\ StrictlyAscending(ret.keys)
                      /\ Len(ret.keys) = Cardinality(bitset)

\* C7 witness: the smallest key was inserted last, into an adapter that
\* already held larger keys, and keys() lists it first.
C7_Witness ==
    /\ Did("insert") /\ op.key = 0
    /\ prevBitset = InRangeKeys \ {0}
    /\ Len(keys(bitset)) = MaxKey + 1
    /\ keys(bitset)[1] = 0

\* C8: after insert(k, v) contains_key(k) is true and the value returned is
\* the result of the container's own insert(k, v), also when the container
\* declines to store the value.
C8_InsertReportsPresent ==
    Did("insert") =>
        /\ contains_key(bitset, op.key).flag
        /\ ret.opt = CollectionInsert(kind, prevCollection, op.key, op.value).ret
        /\ collection
               = CollectionInsert(kind, prevCollection, op.key, op.value).collection

\* C8 witness: an insert the container declined; the key is reported present.
C8_Witness ==
    /\ Did("insert")
    /\ ~CollectionContainsKey(kind, collection, op.key)
    /\ contains_key(bitset, op.key).flag

\* C9: after remove(k) contains_key(k) is false, k is not in keys(), and the
\* value returned is the result of the container's own remove(k): the stored
\* value when the container held k.
C9_RemoveClearsPresence ==
    Did("remove") =>
        /\ ~contains_key(bitset, op.key).flag
        /\ op.key \notin Range(keys(bitset))
        /\ ret.opt = CollectionRemove(kind, prevCollection, op.key).ret
        /\ CollectionContainsKey(kind, prevCollection, op.key)
               => ret.opt = CollectionGet(kind, prevCollection, op.key)

\* C9 witness: a present key was removed and its value returned.
C9_Witness ==
    /\ Did("remove")
    /\ op.key \in prevBitset
    /\ IsSome(ret.opt)
    /\ op.key \notin bitset

\* C10: new(c) yields a presence index holding exactly the integer forms of
\* c's keys and a container equal to c; contains_key(k) on the new adapter
\* equals c.contains_key(k) for every key.
C10_NewScansKeys ==
    Did("new") =>
        /\ bitset = {TryIntoU32(k)[1] : k \in CollectionKeySet(kind, op.input)}
        /\ collection = op.input
        /\ \A k \in InRangeKeys :
              contains_key(bitset, k).flag
                  = CollectionContainsKey(kind, op.input, k)

\* C10 witness: an adapter built by new() from a container holding some keys
\* and lacking others.
C10_Witness ==
    /\ Did("new")
    /\ bitset # {}
    /\ bitset # InRangeKeys

KeyedOps == {"insert", "remove", "get", "contains_key"}

\* C11: insert, remove, get or contains_key called with a key whose
\* conversion to u32 fails ends in the fatal outcome (the unwrap() panics)
\* and modifies neither the presence index nor the backing container.
C11_KeyRangeErrorIsFatal ==
    (op.name \in KeyedOps /\ TryIntoU32(op.key) = None) =>
        /\ pc = "panicked"
        /\ bitset = prevBitset
        /\ collection = prevCollection
        /\ ret = NoRet

\* C11 witness: each of the four operations was called with an out-of-range
\* key on an adapter that holds keys; here, insert.
C11_Witness ==
    /\ pc = "panicked"
    /\ op.name = "insert" /\ TryIntoU32(op.key) = None
    /\ prevBitset # {}
    /\ bitset = prevBitset

\* C13: insert(k, v) and remove(k) affect only key k: for every other key the
\* results of contains_key and get are the same before and after, for the
\* map and the sequence backends.
C13_OnlyKeyAffected ==
    (Did("insert") \/ Did("remove")) =>
        \A k \in InRangeKeys \ {op.key} :
            /\ contains_key(bitset, k) = contains_key(prevBitset, k)
            /\ get(kind, bitset, collection, k)
                   = get(kind, prevBitset, prevCollection, k)

IsPrefix(a, b) == Len(a) <= Len(b) /\ \A i \in 1..Len(a) : a[i] = b[i]

\* C12 as claimed: the sequence keys() returned is a live view over the
\* presence index: while it is being consumed, the key it goes on to yield
\* is the one the current presence index gives, so an insert or remove
\* after keys() changes what it yields.
C12_KeysIsLiveView ==
    (Ready /\ iterOpen) =>
        iter_next(iter_source(iterAt, bitset), yielded)
            = iter_next(bitset, yielded)

\* C12 as amended: the sequence keys() returned is a snapshot: whatever
\* insert or remove is applied while it is being consumed, the keys it has
\* yielded are a prefix of the ascending keys present when keys() was
\* called, and once it is exhausted it has yielded exactly those keys.
C12_KeysIsSnapshot ==
    iterOpen =>
        /\ IsPrefix(yielded, keys(iterAt))
        /\ (Did("next") /\ ret.opt = None) => yielded = keys(iterAt)
        /\ (Did("next") /\ ret.opt # None)
               => ret.opt = Some(keys(iterAt)[Len(yielded)])

\* C12 witness: the iterator was consumed to its end after keys were both
\* inserted and removed since keys() was called, and yielded the keys of
\* the call.
C12_Witness ==
    /\ iterOpen /\ Did("next") /\ ret.opt = None
    /\ yielded = keys(iterAt) /\ yielded # <<>>
    /\ bitset \ iterAt # {}
    /\ iterAt \ bitset # {}

====
